---------------------------- MODULE Spec2Model ----------------------------
(***************************************************************************)
(* Model of the faceswap extraction plugins:                               *)
(*   - the Aligner worker of plugins/extract/align/_base.py (run, align,   *)
(*     initialize, get_item, process_landmarks, finalize), specification   *)
(*     Spec;                                                               *)
(*   - S3fd.nms of plugins/extract/detect/s3fd.py, specification SpecNms;  *)
(*   - S3fd.finalize_predictions / post_process / decode, specification    *)
(*     SpecDetect.                                                         *)
(* Queue items are records: the "EOF" string is [kind |-> "EOF"], a dict   *)
(* is a record with kind "dict" whose other fields are the dict's keys.    *)
(***************************************************************************)
EXTENDS Integers, Sequences, FiniteSets, TLC

VARIABLES
    \* ---- Aligner worker ----
    kwargs,      \* the keyword arguments run() was launched with (a set of keys)
    init,        \* self.init
    error,       \* self.error
    queues,      \* self.queues: which queue handle each entry holds
    inq,         \* content of the input queue
    outq,        \* content of the output queue
    stream,      \* what the upstream stage put on the input queue (never changes)
    pc,          \* position of the worker
    item,        \* the item yielded by get_item to align's loop
    exc,         \* the exception propagating out of align(), "None" if none
    exitStatus,  \* the worker's exit status, -1 while it runs
    \* ---- S3fd.nms ----
    dets,        \* nms: candidate array, a sequence of <<x1, y1, x2, y2, score>>
    thresh,      \* nms: overlap threshold, a fraction <<num, den>>
    order,       \* nms: remaining candidate indices, best score first
    keep,        \* nms: indices kept so far
    npc,         \* nms: position
    \* ---- S3fd.finalize_predictions ----
    confidence,  \* self.confidence, a fraction <<num, den>>
    imgIdx,      \* finalize_predictions: number of images of the batch done
    bboxlist,    \* the slice of the last image done: per cell its score and loc
    cands,       \* post_process result of that image
    kept,        \* nms result of that image (row indices of cands)
    ret,         \* results appended so far, one per image
    dpc          \* finalize_predictions: position

alignVars == <<kwargs, init, error, queues, inq, outq, stream, pc, item, exc, exitStatus>>
nmsVars == <<dets, thresh, order, keep, npc>>
detVars == <<confidence, imgIdx, bboxlist, cands, kept, ret, dpc>>
vars == <<alignVars, nmsVars, detVars>>

(***************************************************************************)
(* Bounds                                                                  *)
(***************************************************************************)
MaxStream == 3      \* longest input stream of the Aligner worker
MaxFaces == 2       \* most detected faces of a WorkItem
MaxDets == 3        \* most rows of a candidate array handed to nms
BatchSize == 1      \* images of a batch

(***************************************************************************)
(* Generic helpers                                                         *)
(***************************************************************************)
RECURSIVE SeqsUpTo(_, _)
SeqsUpTo(S, n) ==
    IF n = 0 THEN {<<>>}
    ELSE LET shorter == SeqsUpTo(S, n - 1)
         IN shorter \cup {Append(s, x) : s \in {t \in shorter : Len(t) = n - 1}, x \in S}

\* dict.get(key, None)
DictGet(d, key) == IF key \in DOMAIN d THEN d[key] ELSE <<>>

\* d[key] = value
DictSet(d, key, value) ==
    [k \in (DOMAIN d) \cup {key} |-> IF k = key THEN value ELSE d[k]]

\* Python truthiness of a tuple/list/None value
Truthy(v) == v # <<>>

(***************************************************************************)
(* Aligner: the items of the queue protocol                                *)
(***************************************************************************)
EOF == [kind |-> "EOF"]

IsDict(it) == it.kind = "dict"

\* An ErrorItem as an upstream stage or run() builds it
ErrorItem(pid, tb) == [kind |-> "dict", exception |-> <<pid, tb>>]

\* The dict the plugin receives for a frame (module docstring)
WorkItem(f, img, faces) ==
    [kind |-> "dict", filename |-> f, image |-> img, detected_faces |-> faces]

Images == {"ok", "corrupt", "broken"}

FaceLists == {[i \in 1..n |-> <<"box", i>>] : n \in 0..MaxFaces}

UpstreamError == ErrorItem("detector_pid", "detector_traceback")

\* What a queue slot can hold, before the frame's filename is known
Shapes ==
    {EOF, UpstreamError} \cup {WorkItem(0, img, faces) : img \in Images, faces \in FaceLists}

\* Frame i of a stream is named i
Named(shapes) ==
    [i \in 1..Len(shapes) |->
        IF "filename" \in DOMAIN shapes[i] THEN [shapes[i] EXCEPT !.filename = i]
        ELSE shapes[i]]

Streams == {Named(s) : s \in SeqsUpTo(Shapes, MaxStream)}

KwargKeys == {"event", "error", "in_queue", "out_queue"}

\* run() is launched with all keyword arguments or with one of them missing
KwargSets == {KwargKeys} \cup {KwargKeys \ {k} : k \in KwargKeys}

(***************************************************************************)
(* Aligner: pure parts                                                     *)
(***************************************************************************)
\* self.colorspace, as __init__ sets it from its default argument
colorspace == "BGR"

\* convert_color: a copy of the image in the plugin's colorspace
convert_color(image) ==
    CASE colorspace = "RGB" -> [data |-> image, channels |-> "RGB"]
      [] colorspace = "GRAY" -> [data |-> image, channels |-> "GRAY"]
      [] OTHER -> [data |-> image, channels |-> "BGR"]

\* align_image + predict_landmarks for one face. A corrupt image makes them
\* raise ValueError, a broken one another exception.
PredictOutcome(image) ==
    CASE image.data = "corrupt" -> "ValueError"
      [] image.data = "broken" -> "RuntimeError"
      [] OTHER -> "None"

\* Mutant of process_landmarks: retval is overwritten instead of appended
\* to, so only the last face's landmarks are returned
process_landmarks_LastOnly(image, detected_faces) ==
    IF Len(detected_faces) > 0 /\ PredictOutcome(image) # "None"
    THEN [raised |-> PredictOutcome(image), retval |-> <<>>]
    ELSE [raised |-> "None",
          retval |-> IF Len(detected_faces) = 0 THEN <<>>
                     ELSE << <<"landmarks", detected_faces[Len(detected_faces)]>> >>]

\* process_landmarks: one landmark set per detected face, in order; the
\* first face raises whatever the prediction raises on this image
process_landmarks(image, detected_faces) ==
    IF Len(detected_faces) > 0 /\ PredictOutcome(image) # "None"
    THEN [raised |-> PredictOutcome(image), retval |-> <<>>]
    ELSE [raised |-> "None",
          retval |-> [i \in 1..Len(detected_faces) |-> <<"landmarks", detected_faces[i]>>]]

\* Mutant of AlignedItem: the ValueError handler forgets to clear
\* detected_faces
AlignedItem_KeepFaces(it) ==
    LET res == process_landmarks(convert_color(it.image), it.detected_faces)
    IN  CASE res.raised = "None" ->
               [raised |-> "None", out |-> DictSet(it, "landmarks", res.retval)]
          [] res.raised = "ValueError" ->
               [raised |-> "None", out |-> DictSet(it, "landmarks", <<>>)]
          [] OTHER -> [raised |-> res.raised, out |-> it]

\* The body of align's loop for a dict item, up to the call of finalize:
\* the item as handed to finalize, and the exception that escapes if any
AlignedItem(it) ==
    LET image == convert_color(it.image)
        res == process_landmarks(image, it.detected_faces)
    IN  CASE res.raised = "None" ->
               [raised |-> "None", out |-> DictSet(it, "landmarks", res.retval)]
          [] res.raised = "ValueError" ->
               [raised |-> "None",
                out |-> DictSet(DictSet(it, "detected_faces", <<>>), "landmarks", <<>>)]
          [] OTHER -> [raised |-> res.raised, out |-> it]

WorkerPid == "aligner_pid"

\* The idle values of the variables a specification does not use
AlignIdle ==
    /\ kwargs = {}
    /\ stream = <<>>
    /\ inq = <<>>
    /\ outq = <<>>
    /\ init = "None"
    /\ error = "None"
    /\ queues = [in |-> "None", out |-> "None"]
    /\ pc = "idle"
    /\ item = EOF
    /\ exc = "None"
    /\ exitStatus = -1

NmsIdle ==
    /\ dets = <<>>
    /\ thresh = <<0, 1>>
    /\ order = <<>>
    /\ keep = <<>>
    /\ npc = "idle"

DetIdle ==
    /\ bboxlist = <<>>
    /\ confidence = <<0, 100>>
    /\ imgIdx = 0
    /\ cands = <<>>
    /\ kept = <<>>
    /\ ret = <<>>
    /\ dpc = "idle"

(***************************************************************************)
(* Aligner: the worker                                                     *)
(***************************************************************************)
Init ==
    /\ kwargs \in KwargSets
    /\ stream \in Streams
    /\ inq = stream
    /\ outq = <<>>
    /\ init = "None"
    /\ error = "None"
    /\ queues = [in |-> "None", out |-> "None"]
    /\ pc = "run"
    /\ item = EOF
    /\ exc = "None"
    /\ exitStatus = -1
    /\ NmsIdle
    /\ DetIdle

\* initialize(): the assignments in order, each raising KeyError when its
\* keyword argument is missing
Initialize ==
    /\ pc = "run"
    /\ init = "None"
    /\ init' = IF "event" \in kwargs THEN "event" ELSE init
    /\ error' = IF {"event", "error"} \subseteq kwargs THEN "error" ELSE error
    /\ queues' = [in |-> IF {"event", "error", "in_queue"} \subseteq kwargs
                         THEN "in_queue" ELSE queues.in,
                  out |-> IF KwargKeys \subseteq kwargs THEN "out_queue" ELSE queues.out]
    /\ IF KwargKeys \subseteq kwargs
       THEN pc' = "get" /\ exc' = exc
       ELSE pc' = "except" /\ exc' = "KeyError"
    /\ UNCHANGED <<kwargs, inq, outq, stream, item, exitStatus>>
    /\ UNCHANGED <<nmsVars, detVars>>

\* Mutant of GetItemRelay: the ErrorItem is put but exit(1) is missing, so
\* the item is yielded to align's loop
GetItemRelay_NoExit ==
    /\ pc = "get"
    /\ inq # <<>>
    /\ IsDict(Head(inq))
    /\ Truthy(DictGet(Head(inq), "exception"))
    /\ inq' = Tail(inq)
    /\ outq' = Append(outq, Head(inq))
    /\ item' = WorkItem(0, "ok", <<>>)
    /\ pc' = "loop"
    /\ UNCHANGED <<kwargs, init, error, queues, stream, exc, exitStatus>>
    /\ UNCHANGED <<nmsVars, detVars>>

\* get_item(): an ErrorItem is put on the output queue and the worker exits
GetItemRelay ==
    /\ pc = "get"
    /\ inq # <<>>
    /\ IsDict(Head(inq))
    /\ Truthy(DictGet(Head(inq), "exception"))
    /\ inq' = Tail(inq)
    /\ outq' = Append(outq, Head(inq))
    /\ pc' = "exited"
    /\ exitStatus' = 1
    /\ UNCHANGED <<kwargs, init, error, queues, stream, item, exc>>
    /\ UNCHANGED <<nmsVars, detVars>>

\* get_item(): any other item is yielded to align's loop
GetItemYield ==
    /\ pc = "get"
    /\ inq # <<>>
    /\ ~(IsDict(Head(inq)) /\ Truthy(DictGet(Head(inq), "exception")))
    /\ inq' = Tail(inq)
    /\ item' = Head(inq)
    /\ pc' = "loop"
    /\ UNCHANGED <<kwargs, init, error, queues, outq, stream, exc, exitStatus>>
    /\ UNCHANGED <<nmsVars, detVars>>

\* finalize(): the completed item, or the "EOF" string, is put on the
\* output queue
finalize(output) == Append(outq, IF output = EOF THEN EOF ELSE output)

\* Mutant of AlignEOF: the loop is left without finalizing the "EOF" item
AlignEOF_NoFinalize ==
    /\ pc = "loop"
    /\ item = EOF
    /\ pc' = "done"
    /\ exitStatus' = 0
    /\ UNCHANGED <<kwargs, init, error, queues, inq, outq, stream, item, exc>>
    /\ UNCHANGED <<nmsVars, detVars>>

\* align(): the "EOF" item is finalized and the loop left; run() returns
AlignEOF ==
    /\ pc = "loop"
    /\ item = EOF
    /\ outq' = finalize(item)
    /\ pc' = "done"
    /\ exitStatus' = 0
    /\ UNCHANGED <<kwargs, init, error, queues, inq, stream, item, exc>>
    /\ UNCHANGED <<nmsVars, detVars>>

\* Mutant of AlignItem: an item without detected faces is not finalized
AlignItem_SkipEmpty ==
    /\ pc = "loop"
    /\ item # EOF
    /\ AlignedItem(item).raised = "None"
    /\ item' = AlignedItem(item).out
    /\ outq' = IF item'.detected_faces = <<>> THEN outq ELSE finalize(item')
    /\ pc' = "get"
    /\ UNCHANGED <<kwargs, init, error, queues, inq, stream, exc, exitStatus>>
    /\ UNCHANGED <<nmsVars, detVars>>

\* align(): a dict item is converted, its landmarks are processed (a
\* ValueError clears it) and it is finalized; get_item is resumed
AlignItem ==
    /\ pc = "loop"
    /\ item # EOF
    /\ AlignedItem(item).raised = "None"
    /\ item' = AlignedItem(item).out
    /\ outq' = finalize(item')
    /\ pc' = "get"
    /\ UNCHANGED <<kwargs, init, error, queues, inq, stream, exc, exitStatus>>
    /\ UNCHANGED <<nmsVars, detVars>>

\* align(): an exception other than ValueError leaves align()
AlignRaise ==
    /\ pc = "loop"
    /\ item # EOF
    /\ AlignedItem(item).raised # "None"
    /\ exc' = AlignedItem(item).raised
    /\ pc' = "except"
    /\ UNCHANGED <<kwargs, init, error, queues, inq, outq, stream, item, exitStatus>>
    /\ UNCHANGED <<nmsVars, detVars>>

\* run(): the except clause. self.init.is_set() and self.queues["out"].put
\* raise AttributeError on None, which leaves run() uncaught.
RunExcept ==
    /\ pc = "except"
    /\ IF init # "None" /\ queues.out # "None"
       THEN /\ outq' = Append(outq, ErrorItem(WorkerPid, exc))
            /\ pc' = "exited"
            /\ exc' = exc
       ELSE /\ outq' = outq
            /\ pc' = "crashed"
            /\ exc' = "AttributeError"
    /\ exitStatus' = 1
    /\ UNCHANGED <<kwargs, init, error, queues, inq, stream, item>>
    /\ UNCHANGED <<nmsVars, detVars>>

Next ==
    \/ Initialize
    \/ GetItemRelay
    \/ GetItemYield
    \/ AlignEOF
    \/ AlignItem
    \/ AlignRaise
    \/ RunExcept

Spec == Init /\ [][Next]_vars

(***************************************************************************)
(* S3fd.nms                                                                *)
(* A candidate row is <<x1, y1, x2, y2, score>>. Coordinates are fixed-point *)
(* numbers in hundredths of a pixel  and a score is a percentage, so every *)
(* quotient the code compares is a ratio of integers, compared exactly.    *)
(* Row indices start at 1.                                                 *)
(***************************************************************************)
\* The number 1 (one pixel) in the fixed-point representation
Pixel == 100

Max(a, b) == IF a >= b THEN a ELSE b

Min(a, b) == IF a <= b THEN a ELSE b

\* areas = (x_2 - x_1 + 1) * (y_2 - y_1 + 1)
Area(b) == (b[3] - b[1] + Pixel) * (b[4] - b[2] + Pixel)

\* width * height of the intersection of rows a and b
Inter(a, b) ==
    LET xx_1 == Max(a[1], b[1])
        yy_1 == Max(a[2], b[2])
        xx_2 == Min(a[3], b[3])
        yy_2 == Min(a[4], b[4])
        width == Max(0, xx_2 - xx_1 + Pixel)
        height == Max(0, yy_2 - yy_1 + Pixel)
    IN  width * height

\* Mutant of OvrLeq: the intersection is not subtracted from the summed areas
OvrLeq_NoUnion(a, b, t) ==
    LET inter == Inter(a, b)
        denom == Area(a) + Area(b)
    IN  CASE denom > 0 -> inter * t[2] <= t[1] * denom
          [] denom < 0 -> inter * t[2] >= t[1] * denom
          [] OTHER -> FALSE

\* ovr <= thresh for ovr = inter / (areas[i] + areas[j] - inter), thresh the
\* fraction t[1] / t[2]; a zero denominator gives nan or inf, never <= thresh
OvrLeq(a, b, t) ==
    LET inter == Inter(a, b)
        denom == Area(a) + Area(b) - inter
    IN  CASE denom > 0 -> inter * t[2] <= t[1] * denom
          [] denom < 0 -> inter * t[2] >= t[1] * denom
          [] OTHER -> FALSE

IndexPermutations(n) ==
    {p \in [1..n -> 1..n] : \A i, j \in 1..n : i # j => p[i] # p[j]}

\* Mutant of Argsort: the [::-1] reversal is missing
Argsort_Ascending(d) ==
    {p \in IndexPermutations(Len(d)) :
        \A i, j \in 1..Len(d) : i < j => d[p[i]][5] <= d[p[j]][5]}

\* scores.argsort()[::-1]: the row indices by descending score; the order
\* of rows of equal score is whatever the unstable sort leaves
Argsort(d) ==
    {p \in IndexPermutations(Len(d)) :
        \A i, j \in 1..Len(d) : i < j => d[p[i]][5] >= d[p[j]][5]}

\* Mutant of Survivors: order[inds] instead of order[inds + 1]
Survivors_OffByOne(d, ord, t) ==
    LET rest == Tail(ord)
        inds == {k \in 1..Len(rest) : OvrLeq(d[ord[1]], d[rest[k]], t)}
        pos == SelectSeq([k \in 1..Len(rest) |-> k], LAMBDA k : k \in inds)
    IN  [k \in 1..Len(pos) |-> ord[pos[k]]]

\* inds = np.where(ovr <= thresh)[0]; order = order[inds + 1]
Survivors(d, ord, t) ==
    LET rest == Tail(ord)
        inds == {k \in 1..Len(rest) : OvrLeq(d[ord[1]], d[rest[k]], t)}
        pos == SelectSeq([k \in 1..Len(rest) |-> k], LAMBDA k : k \in inds)
    IN  [k \in 1..Len(pos) |-> ord[pos[k] + 1]]

\* The while loop of nms from a given order: the indices it appends to keep
RECURSIVE NmsLoop(_, _, _)
NmsLoop(d, ord, t) ==
    IF Len(ord) = 0 THEN <<>>
    ELSE <<ord[1]>> \o NmsLoop(d, Survivors(d, ord, t), t)

\* The boxes (in pixels) and scores of the candidate arrays the nms
\* specification draws
NmsBoxes ==
    {<<0, 0, 0, 0>>, <<0, 0, 1, 0>>, <<1, 0, 2, 0>>, <<0, 0, 2, 0>>,
     <<0, 0, 4, 1>>}

NmsScores == {30, 60, 90}

NmsRows ==
    {<<b[1] * Pixel, b[2] * Pixel, b[3] * Pixel, b[4] * Pixel, s>> :
        b \in NmsBoxes, s \in NmsScores}

DetArrays == SeqsUpTo(NmsRows, MaxDets)

Thresholds == {<<3, 10>>, <<1, 2>>}

InitNms ==
    /\ dets \in DetArrays
    /\ thresh \in Thresholds
    /\ order = <<>>
    /\ keep = <<>>
    /\ npc = "start"
    /\ AlignIdle
    /\ DetIdle

\* nms: an empty array returns the empty list at once
NmsEmpty ==
    /\ npc = "start"
    /\ Len(dets) = 0
    /\ keep' = <<>>
    /\ npc' = "done"
    /\ UNCHANGED <<dets, thresh, order>>
    /\ UNCHANGED <<alignVars, detVars>>

\* nms: the areas and the order by descending score
NmsSort ==
    /\ npc = "start"
    /\ Len(dets) # 0
    /\ order' \in Argsort(dets)
    /\ keep' = <<>>
    /\ npc' = "while"
    /\ UNCHANGED <<dets, thresh>>
    /\ UNCHANGED <<alignVars, detVars>>

\* nms: one pass of the while loop
NmsIterate ==
    /\ npc = "while"
    /\ Len(order) > 0
    /\ keep' = Append(keep, order[1])
    /\ order' = Survivors(dets, order, thresh)
    /\ UNCHANGED <<dets, thresh, npc>>
    /\ UNCHANGED <<alignVars, detVars>>

\* nms: the loop ends and keep is returned
NmsReturn ==
    /\ npc = "while"
    /\ Len(order) = 0
    /\ npc' = "done"
    /\ UNCHANGED <<dets, thresh, order, keep>>
    /\ UNCHANGED <<alignVars, detVars>>

NextNms ==
    \/ NmsEmpty
    \/ NmsSort
    \/ NmsIterate
    \/ NmsReturn

SpecNms == InitNms /\ [][NextNms]_vars

(***************************************************************************)
(* S3fd.finalize_predictions, post_process, decode                         *)
(* The slice of one image is a function from the feature-map cells         *)
(* <<i, hindex, windex>> (i the scale, from 0) to the cell's foreground    *)
(* probability after softmax (score, a percentage) and its regression      *)
(* offsets (loc). The feature maps have one row.                           *)
(***************************************************************************)
\* The columns of the feature map of each scale (strides 4 and 8)
FeatureMapCols == <<2, 1>>

NumScales == Len(FeatureMapCols)

Cols(i) == FeatureMapCols[i + 1]

\* The cells of scale i in the order of np.where
CellOrder(i) == [k \in 1..Cols(i) |-> <<i, 0, k - 1>>]

\* The cells of the first n scales, scale by scale
RECURSIVE AllCells(_)
AllCells(n) == IF n = 0 THEN <<>> ELSE AllCells(n - 1) \o CellOrder(n - 1)

Cells == {AllCells(NumScales)[k] : k \in 1..Len(AllCells(NumScales))}

Scores == {5, 50, 90}

Locs == {<<0, 0, 0, 0>>, <<1, 0, 0, 1>>}

ImageTensors == [Cells -> [score : Scores, loc : Locs]]

Confidences == {0, 50, 90}

\* init_model: confidence = self.config["confidence"] / 100
init_model(config) == <<config, 100>>

\* A score (a percentage) compared with the fraction f[1] / f[2]
ScoreGt(sc, f) == sc * f[2] > f[1] * 100

ScoreGeq(sc, f) == sc * f[2] >= f[1] * 100

\* The low gate of post_process and the threshold of the nms call
Gate == <<5, 100>>

NmsThresh == <<3, 10>>

Variances == << <<1, 10>>, <<2, 10>> >>

\* stride = 2 ** (i + 2)
Stride(i) == 2 ^ (i + 2)

\* priors: the anchor of a cell, in pixels, as (cx, cy, w, h)
Prior(c) ==
    LET stride == Stride(c[1])
    IN  <<stride \div 2 + c[3] * stride, stride \div 2 + c[2] * stride,
          stride * 4, stride * 4>>

\* np.exp of a fixed-point exponent, as a fixed-point number (two decimals)
Exp(x) ==
    CASE x = 0 -> 100
      [] x = 20 -> 122
      [] x = -20 -> 82

\* Mutant of decode: the centre is not moved to the corner
\* (boxes[:, :2] -= boxes[:, 2:] / 2 is missing)
decode_NoCorner(loc, prior, variances) ==
    LET cx == prior[1] * Pixel + (loc[1] * variances[1][1] * prior[3] * Pixel) \div variances[1][2]
        cy == prior[2] * Pixel + (loc[2] * variances[1][1] * prior[4] * Pixel) \div variances[1][2]
        w == prior[3] * Exp((loc[3] * variances[2][1] * Pixel) \div variances[2][2])
        h == prior[4] * Exp((loc[4] * variances[2][1] * Pixel) \div variances[2][2])
    IN  <<cx, cy, w + cx, h + cy>>

\* decode: centre = prior centre + loc * variances[0] * prior size,
\* size = prior size * exp(loc * variances[1]); then the centre becomes the
\* top-left corner and the size the bottom-right corner
decode(loc, prior, variances) ==
    LET cx == prior[1] * Pixel + (loc[1] * variances[1][1] * prior[3] * Pixel) \div variances[1][2]
        cy == prior[2] * Pixel + (loc[2] * variances[1][1] * prior[4] * Pixel) \div variances[1][2]
        w == prior[3] * Exp((loc[3] * variances[2][1] * Pixel) \div variances[2][2])
        h == prior[4] * Exp((loc[4] * variances[2][1] * Pixel) \div variances[2][2])
        x_1 == cx - w \div 2
        y_1 == cy - h \div 2
    IN  <<x_1, y_1, w + x_1, h + y_1>>

\* post_process: one row per cell whose score passes the gate, scale by
\* scale; a single all-zero row when no cell passes
post_process(img) ==
    LET cells == AllCells(NumScales)
        poss == SelectSeq(cells, LAMBDA c : ScoreGt(img[c].score, Gate))
        retval == [k \in 1..Len(poss) |->
                      decode(img[poss[k]].loc, Prior(poss[k]), Variances)
                          \o <<img[poss[k]].score>>]
    IN  IF Len(retval) = 0 THEN << <<0, 0, 0, 0, 0>> >> ELSE retval

\* nms: the lists it can return, one for each order argsort can leave
nms(d, t) ==
    IF Len(d) = 0 THEN {<<>>}
    ELSE {NmsLoop(d, ord, t) : ord \in Argsort(d)}

\* Mutant of FilterConfidence: > instead of >=
FilterConfidence_Strict(rows, conf) ==
    SelectSeq(rows, LAMBDA x : ScoreGt(x[5], conf))

\* [x for x in bboxlist if x[-1] >= self.confidence]
FilterConfidence(rows, conf) ==
    SelectSeq(rows, LAMBDA x : ScoreGeq(x[5], conf))

InitDetect ==
    /\ confidence \in {init_model(c) : c \in Confidences}
    /\ imgIdx = 0
    /\ bboxlist = <<>>
    /\ cands = <<>>
    /\ kept = <<>>
    /\ ret = <<>>
    /\ dpc = "for"
    /\ AlignIdle
    /\ NmsIdle

\* finalize_predictions: one pass of the loop over the images of the batch
FinalizeImage ==
    /\ dpc = "for"
    /\ imgIdx < BatchSize
    /\ \E img \in ImageTensors :
        /\ bboxlist' = img
        /\ cands' = post_process(img)
        /\ kept' \in nms(cands', NmsThresh)
        /\ ret' = Append(ret, FilterConfidence([k \in 1..Len(kept') |-> cands'[kept'[k]]],
                                               confidence))
    /\ imgIdx' = imgIdx + 1
    /\ UNCHANGED <<confidence, dpc>>
    /\ UNCHANGED <<alignVars, nmsVars>>

\* finalize_predictions: the loop is over and ret is returned
FinalizeReturn ==
    /\ dpc = "for"
    /\ imgIdx = BatchSize
    /\ dpc' = "done"
    /\ UNCHANGED <<confidence, imgIdx, bboxlist, cands, kept, ret>>
    /\ UNCHANGED <<alignVars, nmsVars>>

NextDetect ==
    \/ FinalizeImage
    \/ FinalizeReturn

SpecDetect == InitDetect /\ [][NextDetect]_vars

(***************************************************************************)
(* Aligner: what the claims speak of                                       *)
(***************************************************************************)
IsErrorItem(it) ==
    it.kind = "dict" /\ "exception" \in DOMAIN it /\ it.exception # <<>>

IsWorkItem(it) == it.kind = "dict" /\ "filename" \in DOMAIN it

Stopped == pc \in {"done", "exited", "crashed"}

\* The items taken from the input queue so far
Taken == SubSeq(stream, 1, Len(stream) - Len(inq))

\* The frames (filenames) of the WorkItems of a queue content, in order
Frames(q) ==
    LET w == SelectSeq(q, IsWorkItem) IN [i \in 1..Len(w) |-> w[i].filename]

CountEOF(q) == Len(SelectSeq(q, LAMBDA it : it = EOF))

\* WorkItems and ErrorItems followed by the "EOF" sentinel
WellFormedStream ==
    /\ stream # <<>>
    /\ stream[Len(stream)] = EOF
    /\ \A i \in 1..(Len(stream) - 1) : stream[i] # EOF

\* The frame's item raises ValueError in process_landmarks
RaisesValueError(it) ==
    /\ IsWorkItem(it)
    /\ process_landmarks(convert_color(it.image), it.detected_faces).raised = "ValueError"

\* C1: when the worker takes an ErrorItem from the input queue it puts that
\* very item on the output queue, once, and exits with status 1; after that
\* exit the worker takes no step at all: it takes no further item, processes
\* and finalizes nothing, and run() adds no ErrorItem of its own.
C1_ErrorItemRelayedOnce ==
    [][/\ (pc = "get" /\ inq # <<>> /\ IsErrorItem(Head(inq)))
            => /\ outq' = Append(outq, Head(inq))
               /\ inq' = Tail(inq)
               /\ pc' = "exited"
               /\ exitStatus' = 1
               /\ exc' = "None"
       /\ (pc = "exited") => UNCHANGED vars]_vars

\* C1 witness: an ErrorItem that followed a frame was relayed, the worker
\* has exited with status 1 and items are left untaken on the input queue
C1_Witness ==
    /\ pc = "exited"
    /\ exitStatus = 1
    /\ exc = "None"
    /\ Len(outq) = 2
    /\ IsWorkItem(outq[1])
    /\ outq[2] = UpstreamError
    /\ inq # <<>>

\* C2: a WorkItem whose process_landmarks raises ValueError is put on the
\* output queue exactly once with detected_faces and landmarks both empty,
\* and the worker is then back at taking the next item: it has not exited
\* and has put no ErrorItem.
C2_ValueErrorDegrades ==
    [][(pc = "loop" /\ RaisesValueError(item))
            => /\ outq' = Append(outq, [kind |-> "dict",
                                         filename |-> item.filename,
                                         image |-> item.image,
                                         detected_faces |-> <<>>,
                                         landmarks |-> <<>>])
               /\ pc' = "get"
               /\ inq' = inq
               /\ exitStatus' = -1
               /\ exc' = "None"]_vars

\* C2 witness: a frame that raised ValueError is on the output queue,
\* degraded, and the frame after it was processed and put as well
C2_Witness ==
    /\ Len(outq) = 2
    /\ RaisesValueError(stream[1])
    /\ outq[1].filename = 1
    /\ outq[1].detected_faces = <<>>
    /\ outq[1].landmarks = <<>>
    /\ IsWorkItem(outq[2])
    /\ outq[2].landmarks # <<>>

\* C3 (as stated): on every run over WorkItems and ErrorItems followed by
\* "EOF", once the worker has stopped exactly one "EOF" is on the output
\* queue and it is the last item there.
C3_Original ==
    (Stopped /\ WellFormedStream /\ kwargs = KwargKeys)
        => (CountEOF(outq) = 1 /\ outq[Len(outq)] = EOF)

\* C3 (amended): the worker never puts more than one "EOF" and never puts
\* anything after it; a run that ends by returning from run() (it took the
\* sentinel: no ErrorItem and no unhandled exception came first) has put
\* exactly one "EOF", as its last item; a run that ends otherwise has put none.
C3_EOFAtMostOnceAndLast ==
    /\ CountEOF(outq) <= 1
    /\ \A i \in 1..Len(outq) : outq[i] = EOF => i = Len(outq)
    /\ pc = "done" => (CountEOF(outq) = 1 /\ outq[Len(outq)] = EOF)
    /\ pc \in {"exited", "crashed"} => CountEOF(outq) = 0

\* C3 witness: a run over two frames and the sentinel has returned
C3_Witness ==
    /\ pc = "done"
    /\ exitStatus = 0
    /\ Len(outq) = 3
    /\ outq[3] = EOF

\* C4: whenever the worker was ended by an exception raised inside align(),
\* the last item of the output queue is the one ErrorItem of this worker
\* and the exit status is 1.
C4_FaultForwarded ==
    (Stopped /\ exc # "None")
        => /\ exitStatus = 1
           /\ outq # <<>>
           /\ IsErrorItem(outq[Len(outq)])
           /\ outq[Len(outq)].exception[1] = WorkerPid
           /\ Len(SelectSeq(outq, IsErrorItem)) = 1

\* C10 (as stated): once the worker has stopped, the frames on the output
\* queue are exactly the frames taken from the input queue, in order.
C10_Original ==
    (Stopped /\ kwargs = KwargKeys) => Frames(outq) = Frames(Taken)

\* C10 (amended): the frames on the output queue are, in order and once
\* each, the frames taken from the input queue, except for the one frame
\* being processed; a frame whose processing raised an exception other than
\* ValueError is never put. Each put item is the taken item with its
\* landmarks (and, when degraded, its cleared faces).
C10_OrderPreserved ==
    LET taken == Frames(Taken)
        pending == \/ pc = "loop" /\ item # EOF
                   \/ exc \notin {"None", "KeyError", "AttributeError"}
    IN  /\ Frames(outq) = IF pending THEN SubSeq(taken, 1, Len(taken) - 1) ELSE taken
        /\ \A i \in 1..Len(outq) :
              IsWorkItem(outq[i]) =>
                 /\ outq[i].image = stream[outq[i].filename].image
                 /\ "landmarks" \in DOMAIN outq[i]
                 /\ outq[i].detected_faces \in {<<>>, stream[outq[i].filename].detected_faces}

\* C10 witness: a run over a degraded frame, a frame without faces and the
\* sentinel has returned with both frames on the output queue
C10_Witness ==
    /\ pc = "done"
    /\ Len(stream) = 3
    /\ RaisesValueError(stream[1])
    /\ IsWorkItem(stream[2])
    /\ stream[2].detected_faces = <<>>
    /\ Frames(outq) = <<1, 2>>


(***************************************************************************)
(* S3fd.nms: what the claims speak of                                      *)
(***************************************************************************)
\* IoU of rows a and b exceeds num / den, with the pixel-inclusive areas
\* (one pixel is 100 hundredths)
IoUExceeds(a, b, num, den) ==
    LET w == Max(0, Min(a[3], b[3]) - Max(a[1], b[1]) + 100)
        h == Max(0, Min(a[4], b[4]) - Max(a[2], b[2]) + 100)
        areaA == (a[3] - a[1] + 100) * (a[4] - a[2] + 100)
        areaB == (b[3] - b[1] + 100) * (b[4] - b[2] + 100)
    IN  w * h * den > num * (areaA + areaB - w * h)

DistinctScores == \A i, j \in 1..Len(dets) : i # j => dets[i][5] # dets[j][5]

\* C5: every index nms has put in keep is a row index of dets and none is
\* there twice, so the kept boxes are a sub-collection of the candidates.
C5_KeepIsSubset ==
    /\ \A k \in 1..Len(keep) : keep[k] \in 1..Len(dets)
    /\ \A k, l \in 1..Len(keep) : k # l => keep[k] # keep[l]

\* C5 witness: nms returned two of three candidates
C5_Witness ==
    /\ npc = "done"
    /\ Len(dets) = 3
    /\ Len(keep) = 2

\* C6: any two distinct boxes kept by nms(dets, 0.3) have IoU <= 0.3.
C6_KeptPairsBelowThreshold ==
    thresh = <<3, 10>> =>
        \A k, l \in 1..Len(keep) :
            k # l => ~IoUExceeds(dets[keep[k]], dets[keep[l]], 3, 10)

\* C6 witness: of two candidates with IoU 1/2 and scores 0.9 and 0.6, nms
\* at 0.3 returned only the one of score 0.9
C6_Witness ==
    /\ npc = "done"
    /\ thresh = <<3, 10>>
    /\ dets = << <<0, 0, 0, 0, 60>>, <<0, 0, 100, 0, 90>> >>
    /\ IoUExceeds(dets[1], dets[2], 499, 1000)
    /\ ~IoUExceeds(dets[1], dets[2], 1, 2)
    /\ keep = <<2>>

\* C7: when the scores are distinct, keep lists its boxes in strictly
\* descending score order and starts with the highest-scoring candidate.
C7_KeepDescending ==
    DistinctScores =>
        /\ \A k, l \in 1..Len(keep) : k < l => dets[keep[k]][5] > dets[keep[l]][5]
        /\ Len(keep) > 0 => \A i \in 1..Len(dets) : dets[keep[1]][5] >= dets[i][5]

\* C7 witness: three candidates of distinct scores, given in ascending score
\* order, of which nms returned at least two
C7_Witness ==
    /\ npc = "done"
    /\ Len(dets) = 3
    /\ dets[1][5] < dets[2][5]
    /\ dets[2][5] < dets[3][5]
    /\ Len(keep) >= 2

(***************************************************************************)
(* S3fd.finalize_predictions: what the claims speak of                     *)
(***************************************************************************)
\* The row of cands that post_process made of cell c: cell c is the n-th
\* cell of the image, in scale and then column order, that passed the gate
RowOf(c) ==
    Cardinality({d \in Cells :
        /\ bboxlist[d].score > 5
        /\ d[1] < c[1] \/ (d[1] = c[1] /\ d[3] <= c[3])})

\* The anchor of cell c in corner form, in hundredths of a pixel
AnchorCorners(c) ==
    LET stride == 2 ^ (c[1] + 2)
        cx == stride \div 2 + c[3] * stride
        cy == stride \div 2 + c[2] * stride
        half == (stride * 4) \div 2
    IN  <<(cx - half) * 100, (cy - half) * 100, (cx + half) * 100, (cy + half) * 100>>

\* C8: for every anchor of post_process whose cell passed the gate with the
\* regression offset (0, 0, 0, 0), the decoded box is exactly the anchor in
\* corner form (cx - w/2, cy - h/2, cx + w/2, cy + h/2).
C8_ZeroOffsetDecodesToAnchor ==
    imgIdx > 0 =>
        \A c \in Cells :
            (bboxlist[c].score > 5 /\ bboxlist[c].loc = <<0, 0, 0, 0>>)
                => SubSeq(cands[RowOf(c)], 1, 4) = AnchorCorners(c)

\* C8 witness: an image whose cells all pass the gate with zero offsets was
\* post-processed: an anchor of each stride was decoded
C8_Witness ==
    /\ imgIdx > 0
    /\ \A c \in Cells : bboxlist[c].score > 5 /\ bboxlist[c].loc = <<0, 0, 0, 0>>
    /\ Len(cands) = Cardinality(Cells)
    /\ cands[1] = <<-600, -600, 1000, 1000, bboxlist[<<0, 0, 0>>].score>>

\* C9: the result of an image is exactly the boxes nms kept whose score is
\* >= confidence / 100, in nms order; none of its boxes scores below the
\* configured confidence, and a box scoring exactly the confidence is there.
C9_ResultIsKeptAboveConfidence ==
    imgIdx > 0 =>
        LET nmsRows == [k \in 1..Len(kept) |-> cands[kept[k]]]
            pass == {k \in 1..Len(kept) : nmsRows[k][5] * confidence[2] >= confidence[1] * 100}
            res == ret[imgIdx]
        IN  /\ Len(ret) = imgIdx
            /\ Len(res) = Cardinality(pass)
            /\ \A n \in 1..Len(res) :
                  \E k \in pass : /\ res[n] = nmsRows[k]
                                  /\ Cardinality({j \in pass : j <= k}) = n
            /\ \A n \in 1..Len(res) : res[n][5] * confidence[2] >= confidence[1] * 100

\* C9 witness: nms kept for an image a box of score 0.9 and a box of score
\* 0.5; at confidence 90 the result is the box of score 0.9 alone
C9_Witness ==
    /\ imgIdx = 1
    /\ confidence = <<90, 100>>
    /\ Len(kept) = 2
    /\ cands[kept[1]][5] = 90
    /\ cands[kept[2]][5] = 50
    /\ ret[1] = <<cands[kept[1]]>>

(***************************************************************************)
(* Aligner: landmarks and detected faces of the items put                  *)
(***************************************************************************)
\* C11: every WorkItem on the output queue has as many landmark sets as
\* detected faces: when the frame's prediction raised ValueError both lists
\* are empty, otherwise the faces are the frame's own and the k-th landmark
\* set is the one predicted for the k-th face.
C11_LandmarksMatchFaces ==
    \A i \in 1..Len(outq) :
        IsWorkItem(outq[i]) =>
            LET o == outq[i]
                src == stream[o.filename]
            IN  /\ "landmarks" \in DOMAIN o
                /\ Len(o.landmarks) = Len(o.detected_faces)
                /\ IF Len(src.detected_faces) > 0 /\ src.image = "corrupt"
                   THEN o.detected_faces = <<>> /\ o.landmarks = <<>>
                   ELSE /\ o.detected_faces = src.detected_faces
                        /\ \A k \in 1..Len(o.landmarks) :
                              o.landmarks[k] = <<"landmarks", src.detected_faces[k]>>

\* C11 witness: a frame with two faces was put with its two landmark sets,
\* and after it a frame whose prediction raised ValueError, with both lists
\* empty
C11_Witness ==
    /\ Len(outq) = 2
    /\ IsWorkItem(outq[1])
    /\ Len(outq[1].detected_faces) = 2
    /\ Len(outq[1].landmarks) = 2
    /\ IsWorkItem(outq[2])
    /\ stream[2].image = "corrupt"
    /\ Len(stream[2].detected_faces) = 2
    /\ outq[2].detected_faces = <<>>
    /\ outq[2].landmarks = <<>>

(***************************************************************************)
(* S3fd.finalize_predictions: the dummy row of post_process                *)
(***************************************************************************)
\* The cells of the last image whose foreground probability exceeded 0.05
GatedCells == {c \in Cells : bboxlist[c].score > 5}

\* C12: at every confidence setting, each box of an image's result is the
\* row post_process made of a cell that passed the 0.05 gate; the result of
\* an image in which no cell passed the gate is the empty list (the dummy
\* all-zero row is not reported).
C12_OnlyGatedCellsReported ==
    imgIdx > 0 =>
        /\ \A n \in 1..Len(ret[imgIdx]) :
              \E c \in GatedCells : ret[imgIdx][n] = cands[RowOf(c)]
        /\ GatedCells = {} => ret[imgIdx] = <<>>

=============================================================================
